---- MODULE Spec2Model ----
(***************************************************************************)
(* Model of tokenizer_dataset_creation/balanced_split.py: the balanced     *)
(* multilingual merger (baseline calculator, source loader, chunked        *)
(* interleaver, per-language allocator, file assembler, reporter, main).   *)
(*                                                                         *)
(* A text is a sequence of characters.  A character is a triple            *)
(* <<origin, language, position>>: origin is the directory of the source   *)
(* file the character was read from, or "hdr"/"sep" for the characters the *)
(* assembler adds around a block.  Characters of one file are pairwise     *)
(* distinct, so order and provenance of every character can be observed.   *)
(***************************************************************************)
EXTENDS Integers, Sequences, FiniteSets, TLC

VARIABLES
    LANGUAGE_DATA,   \* lang -> [wiki, oscar, total]: the availability table
    dirs,            \* directory -> BOOLEAN: os.path.exists of the source roots
    disk,            \* source path -> [state, len]: the per-language source files
    out,             \* output filename -> [exists, text]: files under OUTPUT_DIR
    csv,             \* [exists, rows]: OUTPUT_DIR/balanced_statistics.csv
    log,             \* stdout of main, the lines that tell the control flow
    rng,             \* state of the process-wide generator of module random
    pc,              \* position of main
    split_idx,       \* index of the split the loop of main is at
    baseline_configs,\* result of find_baseline_amounts
    all_file_stats,  \* the list main collects
    restarted,       \* TRUE once the program has been run again
    call             \* harness of one direct call of a function

vars == <<LANGUAGE_DATA, dirs, disk, out, csv, log, rng, pc, split_idx,
          baseline_configs, all_file_stats, restarted, call>>

-----------------------------------------------------------------------------
(* Bounds of the model *)

MaxAvail == 2
MaxAllocAvail == 5
MaxNeeded == 6
MaxFileLen == 6
MaxLen == 4
MaxChunk == 3

-----------------------------------------------------------------------------
(* Configuration *)

LANGUAGES == <<"yo", "sw">>
WIKI_DIR == "wiki_data_final"
OSCAR_DIR == "output"
OUTPUT_DIR == "final_outputs"
DefaultChunkSize == 1000
RandomSeed == 42
HeaderChars == 15
TrailerChars == 2

LangSet == {LANGUAGES[i] : i \in 1..Len(LANGUAGES)}
SourceDirs == {WIKI_DIR, OSCAR_DIR}
Paths == SourceDirs \X LangSet

Min(a, b) == IF a <= b THEN a ELSE b
Max(a, b) == IF a >= b THEN a ELSE b

\* s[:n] and f.read(n) for n >= 0
Take(s, n) == SubSeq(s, 1, Min(n, Len(s)))

\* F applied to the value of v, which is computed once: an assignment x = v
\* followed by the rest of the function body
Bind(v, F(_)) == CHOOSE r \in {F(x) : x \in {v}} : TRUE

RECURSIVE Flatten(_)
Flatten(ss) == IF ss = <<>> THEN <<>> ELSE Head(ss) \o Flatten(Tail(ss))

wiki_file(lang) == <<WIKI_DIR, lang>>
oscar_file(lang) == <<OSCAR_DIR, lang>>

\* what the file at path p holds
FileContent(p) == [i \in 1..disk[p].len |-> <<p[1], p[2], i>>]

-----------------------------------------------------------------------------
(* load_text_file *)

\* max_chars = None, the default.  None is falsy in "if max_chars:", as 0 is,
\* and stands here as a number no caller passes as a count.
None == -1

\* "if max_chars:" is taken for a count above 0; for 0 and None the whole
\* file is read.  A missing or unreadable file gives "".
load_text_file(filepath, max_chars) ==
    IF disk[filepath].state # "ok" THEN <<>>
    ELSE IF max_chars > 0 THEN Take(FileContent(filepath), max_chars)
    ELSE FileContent(filepath)

-----------------------------------------------------------------------------
(* interleave_texts *)

ChunkCount(text, chunk_size) == (Len(text) + chunk_size - 1) \div chunk_size

Chunks(text, chunk_size) ==
    [k \in 1..ChunkCount(text, chunk_size) |->
        SubSeq(text, (k - 1) * chunk_size + 1, Min(k * chunk_size, Len(text)))]

RECURSIVE InterleaveLoop(_, _, _, _)
InterleaveLoop(chunks1, chunks2, i, max_len) ==
    IF i > max_len THEN <<>>
    ELSE (IF i <= Len(chunks1) THEN chunks1[i] ELSE <<>>)
         \o (IF i <= Len(chunks2) THEN chunks2[i] ELSE <<>>)
         \o InterleaveLoop(chunks1, chunks2, i + 1, max_len)

InterleaveSwapped(text1, text2, chunk_size) ==
    IF Len(text1) = 0 THEN text2
    ELSE IF Len(text2) = 0 THEN text1
    ELSE LET chunks1 == Chunks(text1, chunk_size)
             chunks2 == Chunks(text2, chunk_size)
         IN InterleaveLoop(chunks2, chunks1, 1, Max(Len(chunks1), Len(chunks2)))

interleave_texts(text1, text2, chunk_size) ==
    IF Len(text1) = 0 THEN text2
    ELSE IF Len(text2) = 0 THEN text1
    ELSE LET chunks1 == Chunks(text1, chunk_size)
             chunks2 == Chunks(text2, chunk_size)
         IN InterleaveLoop(chunks1, chunks2, 1, Max(Len(chunks1), Len(chunks2)))

-----------------------------------------------------------------------------
(* get_balanced_language_data *)

\* the counts requested from the two sources (the distribution policy)
RequestRemainderToWiki(wiki_available, oscar_available, chars_needed) ==
    IF oscar_available = 0 THEN
        [wiki_chars |-> Min(chars_needed, wiki_available), oscar_chars |-> 0]
    ELSE IF wiki_available = 0 THEN
        [wiki_chars |-> 0, oscar_chars |-> Min(chars_needed, oscar_available)]
    ELSE LET target_per_source == chars_needed \div 2 IN
        IF target_per_source <= Min(wiki_available, oscar_available) THEN
            [wiki_chars |-> chars_needed - target_per_source,
             oscar_chars |-> target_per_source]
        ELSE IF wiki_available >= chars_needed THEN
            LET oscar_chars == Min(oscar_available, chars_needed \div 2) IN
            [wiki_chars |-> chars_needed - oscar_chars, oscar_chars |-> oscar_chars]
        ELSE IF oscar_available >= chars_needed THEN
            LET wiki_chars == Min(wiki_available, chars_needed \div 2) IN
            [wiki_chars |-> wiki_chars, oscar_chars |-> chars_needed - wiki_chars]
        ELSE
            LET wiki_chars == Min(wiki_available, chars_needed) IN
            [wiki_chars |-> wiki_chars,
             oscar_chars |-> Min(oscar_available, chars_needed - wiki_chars)]

RequestOverdraw(wiki_available, oscar_available, chars_needed) ==
    IF oscar_available = 0 THEN
        [wiki_chars |-> Min(chars_needed, wiki_available), oscar_chars |-> 0]
    ELSE IF wiki_available = 0 THEN
        [wiki_chars |-> 0, oscar_chars |-> Min(chars_needed, oscar_available)]
    ELSE LET target_per_source == chars_needed \div 2 IN
        IF target_per_source <= Min(wiki_available, oscar_available) THEN
            [wiki_chars |-> target_per_source,
             oscar_chars |-> chars_needed - target_per_source]
        ELSE IF wiki_available >= chars_needed THEN
            LET oscar_chars == Min(oscar_available, chars_needed \div 2) IN
            [wiki_chars |-> chars_needed, oscar_chars |-> oscar_chars]
        ELSE IF oscar_available >= chars_needed THEN
            LET wiki_chars == Min(wiki_available, chars_needed \div 2) IN
            [wiki_chars |-> wiki_chars, oscar_chars |-> chars_needed - wiki_chars]
        ELSE
            LET wiki_chars == Min(wiki_available, chars_needed) IN
            [wiki_chars |-> wiki_chars,
             oscar_chars |-> Min(oscar_available, chars_needed - wiki_chars)]

\* the policy with the both-limited branch taking each source up to
\* chars_needed, the OSCAR share not reduced by the Wikipedia share
RequestBothInFull(wiki_available, oscar_available, chars_needed) ==
    IF oscar_available = 0 THEN
        [wiki_chars |-> Min(chars_needed, wiki_available), oscar_chars |-> 0]
    ELSE IF wiki_available = 0 THEN
        [wiki_chars |-> 0, oscar_chars |-> Min(chars_needed, oscar_available)]
    ELSE LET target_per_source == chars_needed \div 2 IN
        IF target_per_source <= Min(wiki_available, oscar_available) THEN
            [wiki_chars |-> target_per_source,
             oscar_chars |-> chars_needed - target_per_source]
        ELSE IF wiki_available >= chars_needed THEN
            LET oscar_chars == Min(oscar_available, chars_needed \div 2) IN
            [wiki_chars |-> chars_needed - oscar_chars, oscar_chars |-> oscar_chars]
        ELSE IF oscar_available >= chars_needed THEN
            LET wiki_chars == Min(wiki_available, chars_needed \div 2) IN
            [wiki_chars |-> wiki_chars, oscar_chars |-> chars_needed - wiki_chars]
        ELSE
            [wiki_chars |-> Min(wiki_available, chars_needed),
             oscar_chars |-> Min(oscar_available, chars_needed)]

RequestedChars(wiki_available, oscar_available, chars_needed) ==
    IF oscar_available = 0 THEN
        [wiki_chars |-> Min(chars_needed, wiki_available), oscar_chars |-> 0]
    ELSE IF wiki_available = 0 THEN
        [wiki_chars |-> 0, oscar_chars |-> Min(chars_needed, oscar_available)]
    ELSE LET target_per_source == chars_needed \div 2 IN
        IF target_per_source <= Min(wiki_available, oscar_available) THEN
            [wiki_chars |-> target_per_source,
             oscar_chars |-> chars_needed - target_per_source]
        ELSE IF wiki_available >= chars_needed THEN
            LET oscar_chars == Min(oscar_available, chars_needed \div 2) IN
            [wiki_chars |-> chars_needed - oscar_chars, oscar_chars |-> oscar_chars]
        ELSE IF oscar_available >= chars_needed THEN
            LET wiki_chars == Min(wiki_available, chars_needed \div 2) IN
            [wiki_chars |-> wiki_chars, oscar_chars |-> chars_needed - wiki_chars]
        ELSE
            LET wiki_chars == Min(wiki_available, chars_needed) IN
            [wiki_chars |-> wiki_chars,
             oscar_chars |-> Min(oscar_available, chars_needed - wiki_chars)]

get_balanced_language_data(lang, chars_needed) ==
    LET wiki_available == LANGUAGE_DATA[lang].wiki
        oscar_available == LANGUAGE_DATA[lang].oscar
        req == RequestedChars(wiki_available, oscar_available, chars_needed)
        wiki_text == IF req.wiki_chars > 0
                     THEN load_text_file(wiki_file(lang), req.wiki_chars) ELSE <<>>
        oscar_text == IF req.oscar_chars > 0
                      THEN load_text_file(oscar_file(lang), req.oscar_chars) ELSE <<>>
        merged_text == interleave_texts(wiki_text, oscar_text, DefaultChunkSize)
    IN [text |-> IF Len(merged_text) > chars_needed
                 THEN Take(merged_text, chars_needed) ELSE merged_text,
        requested |-> req,
        stats |-> [language |-> lang,
                   wiki_chars |-> Len(wiki_text),
                   oscar_chars |-> Len(oscar_text),
                   total_chars |-> Len(wiki_text) + Len(oscar_text),
                   target_chars |-> chars_needed,
                   wiki_available |-> wiki_available,
                   oscar_available |-> oscar_available]]

-----------------------------------------------------------------------------
(* Values the variables of the parts not running hold *)

NoCall == [fn |-> "none"]
IdleTable == [l \in LangSet |-> [wiki |-> 0, oscar |-> 0, total |-> 0]]
IdleDirs == [d \in SourceDirs |-> TRUE]
IdleDisk == [p \in Paths |-> [state |-> "missing", len |-> 0]]
OutputNames == {"final_balanced_small.txt", "final_balanced_medium.txt",
                "final_balanced_large.txt"}
NoOutput == [f \in OutputNames |-> [exists |-> FALSE, text |-> <<>>]]
NoCsv == [exists |-> FALSE, rows |-> <<>>]

IdleMain ==
    /\ out = NoOutput
    /\ csv = NoCsv
    /\ log = <<>>
    /\ rng = 0
    /\ pc = "idle"
    /\ split_idx = 0
    /\ baseline_configs = <<>>
    /\ all_file_stats = <<>>
    /\ restarted = FALSE

MainUnchanged == UNCHANGED <<out, csv, log, rng, pc, split_idx,
                             baseline_configs, all_file_stats, restarted>>

-----------------------------------------------------------------------------
(* Direct calls of interleave_texts on two texts A and B *)

TextA(n) == [i \in 1..n |-> <<"A", "", i>>]
TextB(n) == [i \in 1..n |-> <<"B", "", i>>]

InitInterleave ==
    /\ LANGUAGE_DATA = IdleTable
    /\ dirs = IdleDirs
    /\ disk = IdleDisk
    /\ IdleMain
    /\ \E a \in 0..MaxLen, b \in 0..MaxLen, c \in 1..MaxChunk :
          call = [fn |-> "interleave_texts", text1 |-> TextA(a), text2 |-> TextB(b),
                  chunk_size |-> c, returned |-> FALSE, result |-> <<>>]

CallInterleave ==
    /\ call.fn = "interleave_texts"
    /\ ~call.returned
    /\ call' = [call EXCEPT !.returned = TRUE,
                            !.result = interleave_texts(call.text1, call.text2,
                                                        call.chunk_size)]
    /\ UNCHANGED <<LANGUAGE_DATA, dirs, disk>>
    /\ MainUnchanged

NextInterleave == CallInterleave

SpecInterleave == InitInterleave /\ [][NextInterleave]_vars

-----------------------------------------------------------------------------
(* Direct calls of get_balanced_language_data: one language with any
   tabled availability, its two source files in any state and of any
   length, any chars_needed *)

Profile(w, o) == [wiki |-> w, oscar |-> o, total |-> w + o]
FileStates == {[state |-> "missing", len |-> 0]}
              \cup {[state |-> st, len |-> n] :
                       st \in {"ok", "unreadable"}, n \in 0..MaxFileLen}

InitAlloc ==
    /\ dirs = IdleDirs
    /\ IdleMain
    /\ \E lang \in LangSet, w \in 0..MaxAllocAvail, o \in 0..MaxAllocAvail,
          fw \in FileStates, fo \in FileStates, n \in 0..MaxNeeded :
          /\ LANGUAGE_DATA = [IdleTable EXCEPT ![lang] = Profile(w, o)]
          /\ disk = [IdleDisk EXCEPT ![wiki_file(lang)] = fw,
                                     ![oscar_file(lang)] = fo]
          /\ call = [fn |-> "get_balanced_language_data", lang |-> lang,
                     chars_needed |-> n, returned |-> FALSE,
                     result |-> [text |-> <<>>]]

CallAllocator ==
    /\ call.fn = "get_balanced_language_data"
    /\ ~call.returned
    /\ call' = [call EXCEPT
                   !.returned = TRUE,
                   !.result = get_balanced_language_data(call.lang, call.chars_needed)]
    /\ UNCHANGED <<LANGUAGE_DATA, dirs, disk>>
    /\ MainUnchanged

NextAlloc == CallAllocator

SpecAlloc == InitAlloc /\ [][NextAlloc]_vars

-----------------------------------------------------------------------------
(* Direct calls of load_text_file: one source file in any state and of any
   length, max_chars None or any count from 0 to beyond the file's length *)

InitLoad ==
    /\ LANGUAGE_DATA = IdleTable
    /\ dirs = IdleDirs
    /\ IdleMain
    /\ \E p \in Paths, f \in FileStates, m \in {None} \cup 0..(MaxFileLen + 1) :
          /\ disk = [IdleDisk EXCEPT ![p] = f]
          /\ call = [fn |-> "load_text_file", filepath |-> p, max_chars |-> m,
                     returned |-> FALSE, result |-> <<>>]

CallLoad ==
    /\ call.fn = "load_text_file"
    /\ ~call.returned
    /\ call' = [call EXCEPT !.returned = TRUE,
                            !.result = load_text_file(call.filepath, call.max_chars)]
    /\ UNCHANGED <<LANGUAGE_DATA, dirs, disk>>
    /\ MainUnchanged

NextLoad == CallLoad

SpecLoad == InitLoad /\ [][NextLoad]_vars

-----------------------------------------------------------------------------
(* find_baseline_amounts *)

\* split_configs, in the order the dict is written; ratio = num / den
split_configs ==
    << [split |-> "small",  num |-> 9, den |-> 10, name |-> "final_balanced_small.txt"],
       [split |-> "medium", num |-> 1, den |-> 1,  name |-> "final_balanced_medium.txt"],
       [split |-> "large",  num |-> 1, den |-> 1,  name |-> "final_balanced_large.txt"] >>

\* min(keys, key = total): the first language of the table with the least total
min_lang ==
    LET least(i) == \A j \in 1..Len(LANGUAGES) :
                       LANGUAGE_DATA[LANGUAGES[i]].total <= LANGUAGE_DATA[LANGUAGES[j]].total
        first == CHOOSE i \in 1..Len(LANGUAGES) :
                    least(i) /\ \A j \in 1..(i - 1) : ~least(j)
    IN LANGUAGES[first]

\* int(min_total * ratio); the float product of an integer below 2^52 and
\* 0.9 or 1.0 truncates to the floor of the exact product
CharsPerLang(min_total, config) == (min_total * config.num) \div config.den

find_baseline_amounts ==
    [k \in 1..Len(split_configs) |->
        LET chars_per_lang ==
                CharsPerLang(LANGUAGE_DATA[min_lang].total, split_configs[k])
        IN [split |-> split_configs[k].split,
            chars_per_lang |-> chars_per_lang,
            filename |-> split_configs[k].name,
            total_chars |-> chars_per_lang * Len(LANGUAGES),
            baseline_lang |-> min_lang]]

-----------------------------------------------------------------------------
(* The process-wide generator of module random.  The generator of the
   library is deterministic: the next state and every number drawn are
   functions of the state.  A small congruential generator stands for it. *)

Entropy == {3, 5}
seed(a) == a % 7
RngNext(s) == (5 * s + 1) % 7
RandBelow(s, n) == s % n

\* random.shuffle: for i in reversed(range(1, len(x))): j = randbelow(i + 1);
\* x[i], x[j] = x[j], x[i]
\* the loop with the swap written as one assignment: x[i] takes x[j] and
\* x[j] keeps its value, so a block is written twice and another is lost
RECURSIVE ShuffleLoopOverwrite(_, _, _)
ShuffleLoopOverwrite(x, i, s) ==
    IF i < 2 THEN [list |-> x, rng |-> s]
    ELSE LET s1 == RngNext(s)
             j == RandBelow(s1, i) + 1
         IN ShuffleLoopOverwrite([x EXCEPT ![i] = x[j]], i - 1, s1)

RECURSIVE ShuffleLoop(_, _, _)
ShuffleLoop(x, i, s) ==
    IF i < 2 THEN [list |-> x, rng |-> s]
    ELSE LET s1 == RngNext(s)
             j == RandBelow(s1, i) + 1
         IN ShuffleLoop([x EXCEPT ![i] = x[j], ![j] = x[i]], i - 1, s1)

shuffle(x, s) == ShuffleLoop(x, Len(x), s)

-----------------------------------------------------------------------------
(* create_balanced_file *)

Upper(lang) == CASE lang = "yo" -> "YO" [] lang = "sw" -> "SW"

\* f"# Language: {lang.upper()}\n{lang_text}\n\n"
Block(lang, lang_text) ==
    [i \in 1..HeaderChars |-> <<"hdr", Upper(lang), i>>]
    \o lang_text
    \o [i \in 1..TrailerChars |-> <<"sep", Upper(lang), i>>]

\* the loop over LANGUAGES from index i on: the blocks and the body total
RECURSIVE CollectTexts(_, _)
CollectTexts(i, chars_per_lang) ==
    IF i > Len(LANGUAGES) THEN [all_texts |-> <<>>, total_collected |-> 0]
    ELSE LET lang == LANGUAGES[i]
             lang_text == get_balanced_language_data(lang, chars_per_lang).text
             actual_chars == Len(lang_text)
             rest == CollectTexts(i + 1, chars_per_lang)
         IN IF actual_chars > 0
            THEN [all_texts |-> <<Block(lang, lang_text)>> \o rest.all_texts,
                  total_collected |-> actual_chars + rest.total_collected]
            ELSE rest

create_balanced_file(split_config, rng_state) ==
    LET chars_per_lang == split_config.chars_per_lang
        language_stats ==
            [lang \in LangSet |-> get_balanced_language_data(lang, chars_per_lang).stats]
    IN Bind(CollectTexts(1, chars_per_lang), LAMBDA collected :
       Bind(shuffle(collected.all_texts, rng_state), LAMBDA shuffled :
       Bind(Flatten(shuffled.list), LAMBDA final_text :
       [final_text |-> final_text,
        block_count |-> Len(shuffled.list),
        rng |-> shuffled.rng,
        summary |-> [filename |-> split_config.filename,
                     target_chars |-> split_config.total_chars,
                     actual_chars |-> Len(final_text),
                     chars_per_lang |-> chars_per_lang,
                     baseline_lang |-> split_config.baseline_lang,
                     language_stats |-> language_stats]])))

-----------------------------------------------------------------------------
(* print_detailed_statistics and save_statistics_to_file *)

\* the FILE SUMMARY table
FileSummary(stats_list) ==
    [k \in 1..Len(stats_list) |->
        [filename |-> stats_list[k].filename,
         per_lang |-> stats_list[k].chars_per_lang,
         total |-> stats_list[k].actual_chars,
         perfect |-> IF stats_list[k].actual_chars = stats_list[k].target_chars
                     THEN "YES" ELSE "NO"]]

\* the rows of balanced_statistics.csv (the two percentage columns left out)
RECURSIVE CsvRowsOfFile(_, _)
CsvRowsOfFile(file_stats, i) ==
    IF i > Len(LANGUAGES) THEN <<>>
    ELSE LET lang == LANGUAGES[i]
             stats == file_stats.language_stats[lang]
         IN << [file |-> file_stats.filename,
                language |-> lang,
                is_baseline |-> IF lang = file_stats.baseline_lang THEN "YES" ELSE "NO",
                target_chars |-> stats.target_chars,
                wiki_chars |-> stats.wiki_chars,
                oscar_chars |-> stats.oscar_chars,
                total_chars |-> stats.total_chars] >>
            \o CsvRowsOfFile(file_stats, i + 1)

RECURSIVE CsvRows(_)
CsvRows(stats_list) ==
    IF stats_list = <<>> THEN <<>>
    ELSE CsvRowsOfFile(Head(stats_list), 1) \o CsvRows(Tail(stats_list))

-----------------------------------------------------------------------------
(* main *)

\* the loop of main after one split: an exception of create_balanced_file is
\* caught and the loop goes on
AfterSplitPcNoCatch(raised, idx) ==
    IF raised THEN "crashed"
    ELSE IF idx < Len(split_configs) THEN "splits" ELSE "report"

AfterSplitPc(raised, idx) ==
    IF idx < Len(split_configs) THEN "splits" ELSE "report"

AfterSplitStats(stats_list, file_stats, raised) ==
    IF raised THEN stats_list ELSE Append(stats_list, file_stats)

\* random.seed(42) at the start of main
SeedNever(state) == state

SeedAtStart(state) == seed(RandomSeed)

MainStart ==
    /\ pc = "start"
    /\ IF ~dirs[WIKI_DIR] \/ ~dirs[OSCAR_DIR]
       THEN /\ pc' = "aborted"
            /\ log' = Append(log, [line |-> "Error: directory not found",
                                   dir |-> IF ~dirs[WIKI_DIR] THEN WIKI_DIR
                                           ELSE OSCAR_DIR])
            /\ UNCHANGED <<rng, baseline_configs, all_file_stats, split_idx>>
       ELSE /\ rng' = SeedAtStart(rng)
            /\ baseline_configs' = find_baseline_amounts
            /\ all_file_stats' = <<>>
            /\ split_idx' = 1
            /\ pc' = "splits"
            /\ UNCHANGED log
    /\ UNCHANGED <<LANGUAGE_DATA, dirs, disk, out, csv, restarted, call>>

\* one pass of the loop of main: create_balanced_file under try/except.  The
\* call raises when the output cannot be written (os.makedirs or open of
\* lines 216-220 fails); the blocks are shuffled before that.
MainSplit ==
    /\ pc = "splits"
    /\ \E raised \in BOOLEAN, r \in {create_balanced_file(baseline_configs[split_idx], rng)} :
          LET config == baseline_configs[split_idx]
          IN /\ rng' = r.rng
             /\ out' = IF raised THEN out
                       ELSE [out EXCEPT ![config.filename] =
                                [exists |-> TRUE, text |-> r.final_text]]
             /\ all_file_stats' = AfterSplitStats(all_file_stats, r.summary, raised)
             /\ log' = log \o <<[line |-> "Processing split", split |-> config.split]>>
                           \o (IF raised
                               THEN <<[line |-> "Error creating",
                                       filename |-> config.filename]>>
                               ELSE <<>>)
             /\ pc' = AfterSplitPc(raised, split_idx)
             /\ split_idx' = split_idx + 1
    /\ UNCHANGED <<LANGUAGE_DATA, dirs, disk, csv, baseline_configs, restarted, call>>

MainReport ==
    /\ pc = "report"
    /\ log' = Append(log, [line |-> "DETAILED STATISTICS REPORT",
                           files |-> FileSummary(all_file_stats)])
    /\ pc' = "save"
    /\ UNCHANGED <<LANGUAGE_DATA, dirs, disk, out, csv, rng, split_idx,
                   baseline_configs, all_file_stats, restarted, call>>

MainSave ==
    /\ pc = "save"
    /\ csv' = [exists |-> TRUE, rows |-> CsvRows(all_file_stats)]
    /\ log' = Append(log, [line |-> "Detailed statistics saved"])
    /\ pc' = "done"
    /\ UNCHANGED <<LANGUAGE_DATA, dirs, disk, out, rng, split_idx,
                   baseline_configs, all_file_stats, restarted, call>>

\* the program is started again: a new process, the same disk
Rerun ==
    /\ pc \in {"done", "aborted"}
    /\ pc' = "start"
    /\ rng' \in Entropy
    /\ log' = <<>>
    /\ split_idx' = 0
    /\ baseline_configs' = <<>>
    /\ all_file_stats' = <<>>
    /\ restarted' = TRUE
    /\ UNCHANGED <<LANGUAGE_DATA, dirs, disk, out, csv, call>>

Tables == [LangSet -> {Profile(w, o) : w \in 0..MaxAvail, o \in 0..MaxAvail}]

\* a source file is missing or holds the tabled number of characters
TabledFile(table, p) ==
    [state |-> "ok",
     len |-> IF p[1] = WIKI_DIR THEN table[p[2]].wiki ELSE table[p[2]].oscar]

Init ==
    /\ LANGUAGE_DATA \in Tables
    /\ dirs \in [SourceDirs -> BOOLEAN]
    /\ \E present \in SUBSET {p \in Paths : dirs[p[1]]} :
          disk = [p \in Paths |-> IF p \in present THEN TabledFile(LANGUAGE_DATA, p)
                                  ELSE [state |-> "missing", len |-> 0]]
    /\ out = NoOutput
    /\ csv = NoCsv
    /\ log = <<>>
    /\ rng \in Entropy
    /\ pc = "start"
    /\ split_idx = 0
    /\ baseline_configs = <<>>
    /\ all_file_stats = <<>>
    /\ restarted = FALSE
    /\ call = NoCall

Next == MainStart \/ MainSplit \/ MainReport \/ MainSave

Spec == Init /\ [][Next]_vars

\* both source directories and every source file in place
InitComplete ==
    /\ Init
    /\ \A d \in SourceDirs : dirs[d]
    /\ \A p \in Paths : disk[p].state = "ok"

\* main is one sequential thread: it takes its next step whenever it has one
SpecFair == InitComplete /\ [][Next]_vars /\ WF_vars(Next)

\* the program run again and again on the same sources
NextRerun == Next \/ Rerun

SpecRerun == InitComplete /\ [][NextRerun]_vars

-----------------------------------------------------------------------------
(* Claims about load_text_file *)

IsPrefix(t, content) == Len(t) <= Len(content) /\ t = SubSeq(content, 1, Len(t))

(* C11 as claimed: for every file content and every max_chars that is not
   None, 0 included, load_text_file returns a prefix of the content of at
   most max_chars characters; with max_chars None it returns the whole
   content; for a missing or unreadable file it returns the empty text. *)
C11_LoadReturnsCappedPrefix ==
    (call.fn = "load_text_file" /\ call.returned) =>
        IF disk[call.filepath].state # "ok" THEN call.result = <<>>
        ELSE IF call.max_chars = None THEN call.result = FileContent(call.filepath)
        ELSE /\ IsPrefix(call.result, FileContent(call.filepath))
             /\ Len(call.result) <= call.max_chars

-----------------------------------------------------------------------------
(* Claims about get_balanced_language_data *)

Returned == call.fn = "get_balanced_language_data" /\ call.returned
CallWiki == LANGUAGE_DATA[call.lang].wiki
CallOscar == LANGUAGE_DATA[call.lang].oscar
CallWikiDisk == disk[wiki_file(call.lang)]
CallOscarDisk == disk[oscar_file(call.lang)]
\* each source file holds exactly the tabled number of characters
FilesAsTabled ==
    /\ CallWikiDisk = [state |-> "ok", len |-> CallWiki]
    /\ CallOscarDisk = [state |-> "ok", len |-> CallOscar]

(* C1 as claimed: with each source file holding the tabled number of
   characters and wiki_available + crawl_available >= chars_needed > 0, the
   returned stats have total_chars = chars_needed. *)
C1_ExactWhenSufficient ==
    (Returned /\ FilesAsTabled /\ call.chars_needed > 0
        /\ CallWiki + CallOscar >= call.chars_needed)
    => call.result.stats.total_chars = call.chars_needed

(* C3: whatever the two source files hold (longer or shorter than tabled,
   missing, unreadable), the returned stats have total_chars <= target_chars
   = chars_needed and the returned text is at most chars_needed long. *)
C3_NeverOverTarget ==
    Returned =>
        /\ call.result.stats.target_chars = call.chars_needed
        /\ call.result.stats.total_chars <= call.result.stats.target_chars
        /\ Len(call.result.text) <= call.chars_needed

\* both files longer than tabled and than needed, and the budget is used up
C3_Witness ==
    /\ Returned
    /\ CallWikiDisk.state = "ok" /\ CallWikiDisk.len > CallWiki
    /\ CallOscarDisk.state = "ok" /\ CallOscarDisk.len > call.chars_needed
    /\ call.result.stats.wiki_chars > 0
    /\ call.result.stats.oscar_chars > 0
    /\ call.result.stats.total_chars = call.chars_needed

IsFromOscar(ch) == ch[1] = OSCAR_DIR

(* C4 as claimed: with the wiki file absent and the crawl file (and the
   tabled crawl availability) holding at least chars_needed characters, the
   result has total_chars = chars_needed, wiki_chars = 0 and every character
   drawn from the crawl file. *)
C4_MissingWikiFilledFromCrawl ==
    (Returned /\ call.chars_needed > 0
        /\ CallWikiDisk.state = "missing"
        /\ CallOscarDisk.state = "ok"
        /\ CallOscarDisk.len >= call.chars_needed
        /\ CallOscar >= call.chars_needed)
    => /\ call.result.stats.total_chars = call.chars_needed
       /\ call.result.stats.wiki_chars = 0
       /\ SelectSeq(call.result.text, IsFromOscar) = call.result.text

(* C5: with both sources available (wiki_available > 0, crawl_available > 0),
   each holding at least chars_needed // 2 (the even split is possible) and
   the files holding the tabled amounts, wiki supplies chars_needed // 2 and
   crawl the same or one more, so |wiki_chars - oscar_chars| <= 1 and the odd
   character is never wiki's; crawl is asked for chars_needed - half and
   supplies exactly that whenever it holds that many. *)
C5_NearEvenSplit ==
    LET half == call.chars_needed \div 2 IN
    (Returned /\ FilesAsTabled /\ call.chars_needed > 0
        /\ CallWiki > 0 /\ CallOscar > 0
        /\ half <= Min(CallWiki, CallOscar))
    => /\ call.result.stats.wiki_chars = half
       /\ call.result.stats.oscar_chars - call.result.stats.wiki_chars \in {0, 1}
       /\ call.result.requested.oscar_chars = call.chars_needed - half
       /\ (CallOscar >= call.chars_needed - half
              => call.result.stats.oscar_chars = call.chars_needed - half)

\* an odd budget split evenly: crawl supplies the extra character
C5_Witness ==
    /\ Returned /\ FilesAsTabled
    /\ CallWiki > 0 /\ CallOscar > 0
    /\ call.chars_needed > 2 /\ call.chars_needed % 2 = 1
    /\ call.result.stats.wiki_chars = call.chars_needed \div 2
    /\ call.result.stats.oscar_chars = call.result.stats.wiki_chars + 1

(* C12 as claimed: for every profile and every chars_needed > 0, the counts
   requested from load_text_file and the counts the returned stats report as
   used do not exceed the tabled availability of their source:
   wiki_chars <= wiki_available and oscar_chars <= oscar_available. *)
C12_NeverBeyondAvailability ==
    (Returned /\ call.chars_needed > 0) =>
        /\ call.result.requested.wiki_chars <= CallWiki
        /\ call.result.requested.oscar_chars <= CallOscar
        /\ call.result.stats.wiki_chars <= call.result.stats.wiki_available
        /\ call.result.stats.oscar_chars <= call.result.stats.oscar_available

(* C14: in every branch of the policy the requested counts satisfy
   wiki_chars >= 0, oscar_chars >= 0 and wiki_chars + oscar_chars <=
   chars_needed, so the merged text is never longer than chars_needed, the
   truncation is never taken, and the returned text is exactly as long as
   the total_chars the stats report. *)
C14_RequestWithinNeedAndNoTruncation ==
    Returned =>
        /\ call.result.requested.wiki_chars >= 0
        /\ call.result.requested.oscar_chars >= 0
        /\ call.result.requested.wiki_chars + call.result.requested.oscar_chars
              <= call.chars_needed
        /\ call.result.stats.wiki_chars <= call.result.requested.wiki_chars
        /\ call.result.stats.oscar_chars <= call.result.requested.oscar_chars
        /\ call.result.stats.total_chars <= call.chars_needed
        /\ Len(call.result.text) = call.result.stats.total_chars

\* both sources limited, both files longer than what is asked of them: the
\* two requests add up to chars_needed and the text returned has that length
C14_Witness ==
    /\ Returned
    /\ CallWiki > 0 /\ CallWiki < call.chars_needed \div 2
    /\ CallOscar > 0 /\ CallOscar < call.chars_needed
    /\ CallWikiDisk.state = "ok" /\ CallWikiDisk.len > CallWiki
    /\ CallOscarDisk.state = "ok" /\ CallOscarDisk.len > CallOscar
    /\ call.result.requested.wiki_chars = CallWiki
    /\ call.result.requested.oscar_chars = call.chars_needed - CallWiki
    /\ Len(call.result.text) = call.chars_needed
    /\ call.result.stats.total_chars = call.chars_needed

-----------------------------------------------------------------------------
(* Claims about the files and statistics of one run *)

\* every source file holds exactly the tabled number of characters
AllFilesAsTabled == \A p \in Paths : disk[p] = TabledFile(LANGUAGE_DATA, p)

\* the characters of a text that were read from a source file of lang
BodyChars(text, lang) ==
    Cardinality({i \in 1..Len(text) : text[i][1] \in SourceDirs /\ text[i][2] = lang})

RECURSIVE SumTotalChars(_)
SumTotalChars(rows) ==
    IF rows = <<>> THEN 0 ELSE Head(rows).total_chars + SumTotalChars(Tail(rows))

(* C2 as claimed: with every source file holding the tabled amount, every
   language contributes the same number of body characters, the split's
   chars_per_lang, to each output file. *)
C2_EveryLanguageContributesCharsPerLang ==
    AllFilesAsTabled =>
        \A k \in 1..Len(all_file_stats) : \A lang \in LangSet :
            BodyChars(out[all_file_stats[k].filename].text, lang)
                = all_file_stats[k].chars_per_lang

(* C6 as claimed: for every file in which each language's allocation reaches
   chars_per_lang, the summary has actual_chars = target_chars and the
   reporter's Perfect Balance flag is YES. *)
C6_PerfectBalanceWhenSufficient ==
    \A k \in 1..Len(all_file_stats) :
        LET file_stats == all_file_stats[k] IN
        (\A lang \in LangSet :
            file_stats.language_stats[lang].total_chars = file_stats.chars_per_lang)
        => /\ file_stats.actual_chars = file_stats.target_chars
           /\ FileSummary(all_file_stats)[k].perfect = "YES"

RowsOfFile(rows, filename) ==
    SelectSeq(rows, LAMBDA row : row.file = filename)

(* C7 as claimed: the total_chars of the CSV rows of a file sum to the
   actual_chars reported for that file. *)
C7_CsvTotalsSumToActualChars ==
    pc = "done" =>
        \A k \in 1..Len(all_file_stats) :
            SumTotalChars(RowsOfFile(csv.rows, all_file_stats[k].filename))
                = all_file_stats[k].actual_chars

LinesOf(kind) == SelectSeq(log, LAMBDA entry : entry.line = kind)
FailedFiles == {LinesOf("Error creating")[i].filename :
                   i \in 1..Len(LinesOf("Error creating"))}
SucceededNames ==
    SelectSeq([k \in 1..Len(split_configs) |-> split_configs[k].name],
              LAMBDA name : name \notin FailedFiles)

\* what holds of main at every point of a run
SplitFailuresContained ==
    /\ pc # "crashed"
    /\ pc \in {"report", "save", "done"} =>
          /\ [i \in 1..Len(LinesOf("Processing split")) |->
                 LinesOf("Processing split")[i].split] = <<"small", "medium", "large">>
          /\ [k \in 1..Len(all_file_stats) |-> all_file_stats[k].filename]
                = SucceededNames
    /\ pc = "done" =>
          /\ Len(LinesOf("DETAILED STATISTICS REPORT")) = 1
          /\ Len(LinesOf("DETAILED STATISTICS REPORT")[1].files) = Len(all_file_stats)
          /\ csv.exists
          /\ Len(csv.rows) = Len(all_file_stats) * Len(LANGUAGES)
          /\ \A k \in 1..Len(all_file_stats) :
                Len(RowsOfFile(csv.rows, all_file_stats[k].filename)) = Len(LANGUAGES)

(* C10: once the directory checks have passed, main never ends by an
   exception of a split; whichever splits fail, small, medium and large are
   attempted in this order, exactly the splits that did not fail have an
   entry in all_file_stats, and main always goes on to print the report and
   write the CSV for the entries gathered, also when there are none. *)
C10_SplitFailuresAreIsolated ==
    /\ []SplitFailuresContained
    /\ (pc = "splits") ~> (pc = "done" /\ csv.exists)

\* every split failed, and the report and the CSV are there all the same
C10_Witness ==
    /\ pc = "done"
    /\ Len(LinesOf("Error creating")) = Len(split_configs)
    /\ all_file_stats = <<>>
    /\ Len(LinesOf("DETAILED STATISTICS REPORT")) = 1
    /\ csv.exists

\* the languages whose stats in a file's summary report characters used
Contributing(file_stats) ==
    {lang \in LangSet : file_stats.language_stats[lang].total_chars > 0}

\* the orders in which the languages of a set can follow one another
Orders(langs) ==
    {order \in [1..Cardinality(langs) -> langs] :
        \A i, j \in DOMAIN order : order[i] = order[j] => i = j}

\* the labelled blocks of the languages of an order, one after another
BlocksInOrder(order, chars_per_lang) ==
    Flatten([i \in DOMAIN order |->
        Block(order[i], get_balanced_language_data(order[i], chars_per_lang).text)])

(* C13: each file written consists of exactly one labelled block
   "# Language: <CODE>\n<text>\n\n" for each language whose allocation has
   total_chars > 0 and of no block for any other language, the blocks in
   some permutation of the enumeration order, and the file's summary holds
   the stats of every language of LANGUAGES, block or no block. *)
C13_OneBlockPerContributingLanguage ==
    \A k \in 1..Len(all_file_stats) :
        LET file_stats == all_file_stats[k] IN
        /\ DOMAIN file_stats.language_stats = LangSet
        /\ \A lang \in LangSet : file_stats.language_stats[lang].language = lang
        /\ out[file_stats.filename].exists
        /\ \E order \in Orders(Contributing(file_stats)) :
              out[file_stats.filename].text
                  = BlocksInOrder(order, file_stats.chars_per_lang)

\* a file of one block: one language was asked for characters and gave
\* none, and its stats are in the summary all the same
C13_Witness ==
    \E k \in 1..Len(all_file_stats) :
        LET file_stats == all_file_stats[k] IN
        /\ file_stats.chars_per_lang > 0
        /\ Cardinality(Contributing(file_stats)) = 1
        /\ \E lang \in LangSet :
              /\ file_stats.language_stats[lang].total_chars = 0
              /\ file_stats.language_stats[lang].target_chars > 0
        /\ Len(out[file_stats.filename].text) > HeaderChars + TrailerChars

\* a file of two blocks written in the order opposite to LANGUAGES
C13_WitnessShuffled ==
    \E k \in 1..Len(all_file_stats) :
        LET file_stats == all_file_stats[k] IN
        /\ Contributing(file_stats) = LangSet
        /\ out[file_stats.filename].text
              = BlocksInOrder(<<LANGUAGES[2], LANGUAGES[1]>>, file_stats.chars_per_lang)

-----------------------------------------------------------------------------
(* Claims about running the program again *)

(* C9: with the same seed, the same table and the same source files, a file
   written again by a later run is identical to the one an earlier run
   wrote, block order included: the generator is seeded at the start of main
   and advanced by the shuffles of the splits alone. *)
C9_RerunWritesIdenticalFiles ==
    [][\A f \in OutputNames :
          (out[f].exists /\ out'[f].exists) => out'[f].text = out[f].text]_vars

\* a second run has written all three files again, each of two blocks, and
\* the shuffles of medium and large (the same plan) came out differently
C9_Witness ==
    /\ restarted
    /\ pc = "done"
    /\ Len(all_file_stats) = Len(split_configs)
    /\ \A f \in OutputNames : out[f].exists
    /\ \A lang \in LangSet :
          BodyChars(out["final_balanced_small.txt"].text, lang) > 0
    /\ out["final_balanced_medium.txt"].text # out["final_balanced_large.txt"].text

IsFromA(ch) == ch[1] = "A"
IsFromB(ch) == ch[1] = "B"

(* C8: for all texts A and B and every chunk_size >= 1, interleave_texts is
   an order-preserving merge: the characters of the result that come from A
   are A, in order, those that come from B are B, in order, the result is as
   long as A and B together, an empty text returns the other unchanged, and
   chunk i of A comes right before chunk i of B: character k of A stands
   after the first i chunks of B, character k of B after the first i+1 chunks
   of A, where i is the chunk the character lies in. *)
C8_InterleaveIsOrderedMerge ==
    (call.fn = "interleave_texts" /\ call.returned) =>
        LET a == call.text1
            b == call.text2
            c == call.chunk_size
            r == call.result
        IN /\ Len(r) = Len(a) + Len(b)
           /\ SelectSeq(r, IsFromA) = a
           /\ SelectSeq(r, IsFromB) = b
           /\ (Len(a) = 0 => r = b)
           /\ (Len(b) = 0 => r = a)
           /\ \A k \in 1..Len(a) :
                 r[k + Min(Len(b), ((k - 1) \div c) * c)] = a[k]
           /\ \A k \in 1..Len(b) :
                 r[k + Min(Len(a), ((k - 1) \div c + 1) * c)] = b[k]

\* both texts span several chunks and B runs on after A is exhausted
C8_Witness ==
    /\ call.fn = "interleave_texts"
    /\ call.returned
    /\ Len(call.text1) > call.chunk_size
    /\ Len(call.text2) > Len(call.text1) + call.chunk_size
    /\ Len(call.result) = Len(call.text1) + Len(call.text2)

====
